---- MODULE Spec2Model ----
(***************************************************************************)
(* nvidia_oc: the command-line program of src/src/main.rs as a state       *)
(* machine.  One process runs main(); the vendor library, the escalation   *)
(* tools and the file system are the environment, whose answers are drawn  *)
(* nondeterministically at the call that asks for them.  Every call that   *)
(* reaches the vendor library is appended to the history variable `calls`  *)
(* together with the identity (elevated or not) of the process that made   *)
(* it; `hw` is the device state those calls leave behind.                  *)
(***************************************************************************)
EXTENDS Integers, Sequences, FiniteSets, TLC

VARIABLES
    pc,          \* position of the running process in main()
    elevated,    \* sudo2::running_as_root() of the running process
    args,        \* the command line (kept across a re-execution)
    file,        \* what the config file at cli.file holds
    cli,         \* Cli::parse() result (in memory)
    config,      \* config.sets in iteration order (in memory)
    it,          \* number of config entries the for loop has taken
    nvml,        \* TRUE once Nvml::init() returned Ok in this process
    device,      \* index of the device handle held, -1 when none
    gate,        \* record of the latest escalate_permissions() invocation
    reexecs,     \* history: how often the process was replaced
    calls,       \* history: every vendor / library call issued, in order
    hw,          \* state of the devices
    out,         \* history: lines printed (stdout and stderr)
    panic_msg    \* message of the panic that ended the process

vars == <<pc, elevated, args, file, cli, config, it, nvml, device, gate,
          reexecs, calls, hw, out, panic_msg>>

(***************************************************************************)
(* Bounds of the model.                                                    *)
(***************************************************************************)
NumDevices == 2      \* GPUs present: indices 0 .. NumDevices-1
MaxEntries == 3      \* entries of a config file
MaxFields  == 2      \* populated options of a command line (or all eight)

(***************************************************************************)
(* Values.  Option<T> is a sequence: <<>> is None, <<v>> is Some(v).       *)
(* A u32 that is cast to i32 is kept as [hi, lo] with value hi*2^31 + lo,  *)
(* so that the upper half of the u32 range is representable.               *)
(***************************************************************************)
None == <<>>

Some(v) == <<v>>

IsSome(o) == Len(o) = 1

Unwrap(o) == o[1]

Range(s) == {s[i] : i \in 1..Len(s)}

U32(n) == [hi |-> 0, lo |-> n]

NVML_SUCCESS == 0

\* `temp_celsius as i32` : two's complement reinterpretation of 32 bits
AsI32(t) == IF t.hi = 1 THEN (t.lo - 2147483647) - 1 ELSE t.lo

Devices == 0 .. (NumDevices - 1)

Indices == 0 .. NumDevices

FreqVals == {-150}

MemVals == {800}

PowerVals == {200000, 400000}

ClockVals == [min |-> 210, max |-> 1800]

MemClockVals == [min |-> 405, max |-> 9501]

TempVals == {U32(65), [hi |-> 1, lo |-> 65]}

Opt(S) == {None} \cup {Some(v) : v \in S}

\* struct Sets
SetsType ==
    [freq_offset   : Opt(FreqVals),
     mem_offset    : Opt(MemVals),
     power_limit   : Opt(PowerVals),
     min_clock     : Opt({ClockVals.min}),
     max_clock     : Opt({ClockVals.max}),
     min_mem_clock : Opt({MemClockVals.min}),
     max_mem_clock : Opt({MemClockVals.max}),
     target_temp   : Opt(TempVals)]

FieldNames ==
    {"freq_offset", "mem_offset", "power_limit", "min_clock", "max_clock",
     "min_mem_clock", "max_mem_clock", "target_temp"}

Populated(s) == {f \in FieldNames : IsSome(s[f])}

NoSets ==
    [freq_offset |-> None, mem_offset |-> None, power_limit |-> None,
     min_clock |-> None, max_clock |-> None, min_mem_clock |-> None,
     max_mem_clock |-> None, target_temp |-> None]

\* the vendor's power-limit constraints of each device, in milliwatts
power_management_limit_constraints(d) ==
    [min_limit |-> 100000 + 25500 * d, max_limit |-> 300000 + 50999 * d]

\* the vendor's acoustic threshold range of each device, in Celsius
acoustic_range(d) == [min |-> 60 + d, max |-> 90 + d]

(***************************************************************************)
(* Inputs: the command line and the config file.                           *)
(***************************************************************************)
CliSets ==
    {s \in SetsType : Cardinality(Populated(s)) <= MaxFields
                      \/ Populated(s) = FieldNames}

\* the settings bundles a config file entry is drawn from
ConfigSets ==
    {NoSets,
     [NoSets EXCEPT !.freq_offset = Some(-150)],
     [NoSets EXCEPT !.min_clock = Some(ClockVals.min)]}

\* HashMap<u32, Sets>: distinct keys, iterated in an arbitrary order
Configs ==
    UNION {{c \in [1..n -> [index : Indices, sets : ConfigSets]] :
               \A i, j \in 1..n : i # j => c[i].index # c[j].index}
           : n \in 0..MaxEntries}

NoFile == [readable |-> FALSE, wellformed |-> FALSE, sets |-> <<>>]

Files ==
    {NoFile} \cup
    {[readable |-> TRUE, wellformed |-> w, sets |-> c] :
         w \in BOOLEAN, c \in Configs}

NoArgs == [command |-> "None", index |-> 0, sets |-> NoSets]

ArgsInputs ==
    {[command |-> "Set", index |-> i, sets |-> s] :
         i \in Indices, s \in CliSets}
    \cup {[command |-> "Get", index |-> i, sets |-> NoSets] : i \in Indices}
    \cup {[command |-> "Completion", index |-> 0, sets |-> NoSets]}
    \cup {NoArgs}

(***************************************************************************)
(* Messages: the literal pieces of a formatted string in order, and the    *)
(* numbers interpolated into it in order (each a u32).                     *)
(***************************************************************************)
NoMsg == [text |-> <<>>, nums |-> <<>>]

Msg(t, n) == [text |-> t, nums |-> n]

\* a printed line: println! goes to stdout, eprintln! to stderr; its numbers
\* are plain integers
Line(stream, t, n) == [stream |-> stream, text |-> t, nums |-> n]

\* String::push_str
push_str(m, t, n) == [text |-> m.text \o t, nums |-> m.nums \o n]

\* {:?} of an NvmlError, by the vendor's return code
ErrName(code) ==
    CASE code = 2 -> "InvalidArg"
      [] code = 3 -> "NotSupported"
      [] code = 6 -> "NotFound"
      [] code = 9 -> "DriverNotLoaded"
      [] OTHER    -> "Unknown"

\* Result::expect(msg) on Err(e): panics with "msg: {e:?}"
expect(msg, code) == Msg(<<msg, ": ", ErrName(code)>>, <<>>)

(***************************************************************************)
(* The history of calls.                                                   *)
(***************************************************************************)
Call(op, dev, arg, code) ==
    [op |-> op, dev |-> dev, arg |-> arg, code |-> code, elev |-> elevated]

\* the memory offset step calling the core offset setter
WriteOp_mem_as_core ==
    [freq_offset |-> "set_gpc_clock_vf_offset",
     mem_offset  |-> "set_gpc_clock_vf_offset",
     power_limit |-> "set_power_management_limit",
     clocks      |-> "set_gpu_locked_clocks",
     mem_clocks  |-> "set_mem_locked_clocks",
     target_temp |-> "set_acoustic_temperature"]

\* the write call of each settings field, Sets::apply
WriteOp ==
    [freq_offset |-> "set_gpc_clock_vf_offset",
     mem_offset  |-> "set_mem_clock_vf_offset",
     power_limit |-> "set_power_management_limit",
     clocks      |-> "set_gpu_locked_clocks",
     mem_clocks  |-> "set_mem_locked_clocks",
     target_temp |-> "set_acoustic_temperature"]

Kinds == DOMAIN WriteOp

WriteOps == {WriteOp[k] : k \in Kinds}

\* the raw vendor calls of the threshold bridge
RawSet == "nvmlDeviceSetTemperatureThreshold"

RawGet == "nvmlDeviceGetTemperatureThreshold"

\* the calls that change a device: hw[d][op] is the argument of the last
\* such call that succeeded on device d, <<>> while there was none
HwOps == (WriteOps \ {WriteOp.target_temp}) \cup {RawSet}

HwFactory == [op \in HwOps |-> <<>>]

NoGate == [installed |-> {}, probed |-> <<>>, attempted |-> <<>>,
           result |-> "none"]

Init ==
    /\ pc = "parse"
    /\ elevated \in BOOLEAN
    /\ args \in ArgsInputs
    /\ file \in (IF args.command = "None" THEN Files ELSE {NoFile})
    /\ cli = NoArgs
    /\ config = <<>>
    /\ it = 0
    /\ nvml = FALSE
    /\ device = -1
    /\ gate = NoGate
    /\ reexecs = 0
    /\ calls = <<>>
    /\ hw = [d \in Devices |-> HwFactory]
    /\ out = <<>>
    /\ panic_msg = NoMsg

procVars == <<cli, config, it, nvml, device>>

envVars == <<elevated, args, file, reexecs>>

\* panic!(m): the process terminates with the message
Panic(m) == pc' = "panicked" /\ panic_msg' = m

(***************************************************************************)
(* Cli::parse(): clap validates the Sets group of the Set subcommand.      *)
(***************************************************************************)
\* #[group(required = true)] and the `requires` of the four clock options
ClapValid(s) ==
    /\ Populated(s) # {}
    /\ IsSome(s.min_clock) <=> IsSome(s.max_clock)
    /\ IsSome(s.min_mem_clock) <=> IsSome(s.max_mem_clock)

\* a Get arm that starts with the privilege gate
Dispatch_get_gated(command) ==
    CASE command = "Set"        -> "set_escalate"
      [] command = "Get"        -> "cfg_escalate"
      [] command = "Completion" -> "completion"
      [] OTHER                  -> "cfg_read"

Dispatch(command) ==
    CASE command = "Set"        -> "set_escalate"
      [] command = "Get"        -> "get_init"
      [] command = "Completion" -> "completion"
      [] OTHER                  -> "cfg_read"

Parse ==
    /\ pc = "parse"
    /\ IF args.command = "Set" /\ ~ClapValid(args.sets)
         THEN pc' = "usage_error" /\ cli' = cli
         ELSE pc' = Dispatch(args.command) /\ cli' = args
    /\ UNCHANGED <<envVars, config, it, nvml, device, gate, calls, hw, out,
                   panic_msg>>

Completion ==
    /\ pc = "completion"
    /\ pc' = "done"
    /\ out' = Append(out, Line("stdout", <<"completion script">>, <<>>))
    /\ UNCHANGED <<envVars, procVars, gate, calls, hw, panic_msg>>

(***************************************************************************)
(* Privilege escalation.                                                   *)
(***************************************************************************)
Tools == {"sudo", "doas", "pkexec"}

\* doas probed before sudo
ProbeOrder_doas_first == <<"doas", "sudo", "pkexec">>

\* the order of the which::which probes
ProbeOrder == <<"sudo", "doas", "pkexec">>

\* position in ProbeOrder of the first installed tool, 0 when there is none
FirstFound(installed) ==
    IF \E i \in 1..Len(ProbeOrder) : ProbeOrder[i] \in installed
      THEN CHOOSE i \in 1..Len(ProbeOrder) :
               /\ ProbeOrder[i] \in installed
               /\ \A j \in 1..(i-1) : ProbeOrder[j] \notin installed
      ELSE 0

\* a gate that takes every process for root
running_as_root_assumed == TRUE

\* sudo2::running_as_root()
running_as_root == elevated

\* A successful re-execution replaces the process: the program starts again
\* from the top as root, with nothing of the memory of the old process.
Reexec ==
    /\ pc' = "parse"
    /\ elevated' = TRUE
    /\ cli' = NoArgs
    /\ config' = <<>>
    /\ it' = 0
    /\ nvml' = FALSE
    /\ device' = -1
    /\ reexecs' = reexecs + 1
    /\ UNCHANGED <<args, file, panic_msg>>

\* the outcomes of sudo2::escalate_if_needed / doas / pkexec for a process
\* that is not root: the re-executed child ran, the tool refused (the process
\* exits with the child's status), or the call returned Err
Sudo2Outcomes == {"reexec", "denied", "err"}

NoToolMsg ==
    Msg(<<"Failed to escalate permissions", ": ", "Please install ", "sudo",
          ", ", "doas", " or ", "pkexec",
          " and try again. Alternatively, run the program as root.">>, <<>>)

\* a gate that goes on to the remaining tools when an attempt returns Err
escalate_permissions_fallthrough(next) ==
    IF running_as_root
      THEN /\ gate' = [installed |-> {}, probed |-> <<>>, attempted |-> <<>>,
                       result |-> "root"]
           /\ pc' = next
           /\ UNCHANGED <<envVars, procVars, panic_msg>>
      ELSE \E installed \in SUBSET Tools :
             LET found == SelectSeq(ProbeOrder, LAMBDA t : t \in installed)
             IN IF found = <<>>
                  THEN /\ gate' = [installed |-> installed, probed |-> ProbeOrder,
                                   attempted |-> <<>>, result |-> "no_tool"]
                       /\ Panic(NoToolMsg)
                       /\ UNCHANGED <<envVars, procVars>>
                  ELSE \E o \in Sudo2Outcomes :
                         /\ gate' = [installed |-> installed,
                                     probed |-> IF o = "err" THEN ProbeOrder
                                                ELSE SubSeq(ProbeOrder, 1,
                                                            FirstFound(installed)),
                                     attempted |-> IF o = "err" THEN found
                                                   ELSE <<found[1]>>,
                                     result |-> o]
                         /\ CASE o = "reexec" -> Reexec
                              [] o = "denied" ->
                                   /\ pc' = "exited"
                                   /\ UNCHANGED <<envVars, procVars, panic_msg>>
                              [] OTHER ->
                                   /\ Panic(Msg(<<"Failed to escalate permissions",
                                                  ": ", found[Len(found)]>>, <<>>))
                                   /\ UNCHANGED <<envVars, procVars>>

escalate_permissions(next) ==
    IF running_as_root
      THEN /\ gate' = [installed |-> {}, probed |-> <<>>, attempted |-> <<>>,
                       result |-> "root"]
           /\ pc' = next
           /\ UNCHANGED <<envVars, procVars, panic_msg>>
      ELSE \E installed \in SUBSET Tools :
             LET k == FirstFound(installed)
                 probed == IF k = 0 THEN ProbeOrder ELSE SubSeq(ProbeOrder, 1, k)
             IN IF k = 0
                  THEN /\ gate' = [installed |-> installed, probed |-> probed,
                                   attempted |-> <<>>, result |-> "no_tool"]
                       /\ Panic(NoToolMsg)
                       /\ UNCHANGED <<envVars, procVars>>
                  ELSE \E o \in Sudo2Outcomes :
                         /\ gate' = [installed |-> installed, probed |-> probed,
                                     attempted |-> <<ProbeOrder[k]>>,
                                     result |-> o]
                         /\ CASE o = "reexec" -> Reexec
                              [] o = "denied" ->
                                   /\ pc' = "exited"
                                   /\ UNCHANGED <<envVars, procVars, panic_msg>>
                              [] OTHER ->
                                   /\ Panic(Msg(<<"Failed to escalate permissions",
                                                  ": ", ProbeOrder[k]>>, <<>>))
                                   /\ UNCHANGED <<envVars, procVars>>

\* main, Set arm: escalate_permissions().expect(..)
Set_Escalate ==
    /\ pc = "set_escalate"
    /\ escalate_permissions("set_escalate2")
    /\ UNCHANGED <<calls, hw, out>>

\* main, Set arm: sudo2::escalate_if_needed().or_else(doas).or_else(pkexec)
Set_EscalateIfNeeded ==
    /\ pc = "set_escalate2"
    /\ IF elevated
         THEN pc' = "set_init" /\ UNCHANGED <<envVars, procVars, panic_msg>>
         ELSE \E o1, o2, o3 \in Sudo2Outcomes :
                LET o == IF o1 # "err" THEN o1 ELSE IF o2 # "err" THEN o2 ELSE o3
                IN CASE o = "reexec" -> Reexec
                     [] o = "denied" ->
                          /\ pc' = "exited"
                          /\ UNCHANGED <<envVars, procVars, panic_msg>>
                     [] OTHER ->
                          /\ Panic(Msg(<<"Failed to escalate privileges">>, <<>>))
                          /\ UNCHANGED <<envVars, procVars>>
    /\ UNCHANGED <<gate, calls, hw, out>>

(***************************************************************************)
(* DeviceDirectory: Nvml::init() and nvml.device_by_index(index).          *)
(***************************************************************************)
NvmlInit(next) ==
    \E code \in {NVML_SUCCESS, 9} :
      /\ calls' = Append(calls, Call("Nvml::init", -1, <<>>, code))
      /\ IF code = NVML_SUCCESS
           THEN nvml' = TRUE /\ pc' = next /\ panic_msg' = panic_msg
           ELSE nvml' = nvml /\ Panic(expect("Failed to initialize NVML", code))
      /\ UNCHANGED <<envVars, cli, config, it, device, gate, hw, out>>

\* a resolve whose failure skips the entry instead of ending the run
device_by_index_skip(index, next) ==
    LET code == IF index \in Devices THEN NVML_SUCCESS ELSE 2
    IN /\ calls' = Append(calls, Call("device_by_index", index, <<>>, code))
       /\ panic_msg' = panic_msg
       /\ IF code = NVML_SUCCESS
            THEN device' = index /\ pc' = next
            ELSE device' = device /\ pc' = "applied"

device_by_index(index, next) ==
    LET code == IF index \in Devices THEN NVML_SUCCESS ELSE 2
    IN /\ calls' = Append(calls, Call("device_by_index", index, <<>>, code))
       /\ IF code = NVML_SUCCESS
            THEN device' = index /\ pc' = next /\ panic_msg' = panic_msg
            ELSE device' = device /\ Panic(expect("Failed to get GPU", code))

Set_NvmlInit == pc = "set_init" /\ NvmlInit("set_device")

(***************************************************************************)
(* Sets::apply: one step per field, in the order of the source.            *)
(***************************************************************************)
\* the power limit step moved to the front
ApplyOrder_power_first ==
    <<"apply_power_limit", "apply_freq_offset", "apply_mem_offset",
      "apply_clocks", "apply_mem_clocks", "apply_target_temp">>

ApplyOrder ==
    <<"apply_freq_offset", "apply_mem_offset", "apply_power_limit",
      "apply_clocks", "apply_mem_clocks", "apply_target_temp">>

AfterStep(p) ==
    LET i == CHOOSE j \in 1..Len(ApplyOrder) : ApplyOrder[j] = p
    IN IF i = Len(ApplyOrder) THEN "applied" ELSE ApplyOrder[i + 1]

Set_DeviceByIndex ==
    /\ pc = "set_device"
    /\ device_by_index(cli.index, ApplyOrder[1])
    /\ UNCHANGED <<envVars, cli, config, it, nvml, gate, hw, out>>

\* the Sets value `self` of the running apply
Self == IF cli.command = "Set" THEN cli.sets ELSE config[it].sets

\* what the vendor may answer to a structured set call
SetReturns(kind, arg) ==
    IF kind = "power_limit"
         /\ (arg[1] < power_management_limit_constraints(device).min_limit
             \/ arg[1] > power_management_limit_constraints(device).max_limit)
      THEN {2}
      ELSE {NVML_SUCCESS, 3}

\* a failed step that is ignored: apply goes on with the next step
OnFailure_ignored(next) == next

\* a failed step that ends this application only: the run goes on
OnFailure_next_device(next) == "applied"

\* a failed step that is tried again
OnFailure_retry(next) == pc

\* where a failed step leaves the process: .expect(..) / panic!(..)
OnFailure(next) == "panicked"

\* device.set_xxx(arg).expect(msg)
VendorSet(kind, arg, msg) ==
    \E code \in SetReturns(kind, arg) :
      /\ calls' = Append(calls, Call(WriteOp[kind], device, arg, code))
      /\ IF code = NVML_SUCCESS
           THEN /\ hw' = [hw EXCEPT ![device][WriteOp[kind]] = arg]
                /\ pc' = AfterStep(pc)
                /\ panic_msg' = panic_msg
           ELSE /\ hw' = hw
                /\ pc' = OnFailure(AfterStep(pc))
                /\ panic_msg' = expect(msg, code)

Skip == pc' = AfterStep(pc) /\ UNCHANGED <<calls, hw, panic_msg>>

ApplyFreqOffset ==
    /\ pc = "apply_freq_offset"
    /\ IF IsSome(Self.freq_offset)
         THEN VendorSet("freq_offset", <<Unwrap(Self.freq_offset)>>,
                        "Failed to set GPU frequency offset")
         ELSE Skip
    /\ UNCHANGED <<envVars, procVars, gate, out>>

ApplyMemOffset ==
    /\ pc = "apply_mem_offset"
    /\ IF IsSome(Self.mem_offset)
         THEN VendorSet("mem_offset", <<Unwrap(Self.mem_offset)>>,
                        "Failed to set GPU memory frequency offset")
         ELSE Skip
    /\ UNCHANGED <<envVars, procVars, gate, out>>

\* the watt bounds printed without the division by 1000
power_limit_error_no_division(limit, c) ==
    LET error_msg == Msg(<<"Failed to set GPU power limit: ", "{}",
                           " mW is out of range.">>, <<U32(limit)>>)
    IN IF IsSome(c)
         THEN push_str(error_msg,
                       <<" Valid range: ", "{}", "-", "{}", " mW (", "{}", "-",
                         "{}", " W)">>,
                       <<U32(Unwrap(c).min_limit), U32(Unwrap(c).max_limit),
                         U32(Unwrap(c).min_limit), U32(Unwrap(c).max_limit)>>)
         ELSE error_msg

\* the message of the InvalidArg arm; c is the Result of the constraints query
power_limit_error(limit, c) ==
    LET error_msg == Msg(<<"Failed to set GPU power limit: ", "{}",
                           " mW is out of range.">>, <<U32(limit)>>)
    IN IF IsSome(c)
         THEN push_str(error_msg,
                       <<" Valid range: ", "{}", "-", "{}", " mW (", "{}", "-",
                         "{}", " W)">>,
                       <<U32(Unwrap(c).min_limit), U32(Unwrap(c).max_limit),
                         U32(Unwrap(c).min_limit \div 1000),
                         U32(Unwrap(c).max_limit \div 1000)>>)
         ELSE error_msg

ApplyPowerLimit ==
    /\ pc = "apply_power_limit"
    /\ IF IsSome(Self.power_limit)
         THEN LET limit == Unwrap(Self.power_limit)
                  set(code) == Call(WriteOp.power_limit, device, <<limit>>, code)
              IN \E code \in SetReturns("power_limit", <<limit>>) :
                   CASE code = NVML_SUCCESS ->
                          /\ calls' = Append(calls, set(code))
                          /\ hw' = [hw EXCEPT ![device][WriteOp.power_limit] =
                                                  <<limit>>]
                          /\ pc' = AfterStep(pc)
                          /\ panic_msg' = panic_msg
                     [] code = 2 ->
                          \E q \in {NVML_SUCCESS, 3} :
                            LET c == IF q = NVML_SUCCESS
                                       THEN Some(power_management_limit_constraints(device))
                                       ELSE None
                            IN /\ calls' = calls \o
                                    <<set(code),
                                      Call("power_management_limit_constraints",
                                           device, <<>>, q)>>
                               /\ hw' = hw
                               /\ pc' = OnFailure(AfterStep(pc))
                               /\ panic_msg' = power_limit_error(limit, c)
                     [] OTHER ->
                          /\ calls' = Append(calls, set(code))
                          /\ hw' = hw
                          /\ pc' = OnFailure(AfterStep(pc))
                          /\ panic_msg' = Msg(<<"Failed to set GPU power limit: ",
                                                ErrName(code)>>, <<>>)
         ELSE Skip
    /\ UNCHANGED <<envVars, procVars, gate, out>>

ApplyClocks ==
    /\ pc = "apply_clocks"
    /\ IF IsSome(Self.min_clock) /\ IsSome(Self.max_clock)
         THEN VendorSet("clocks",
                        <<Unwrap(Self.min_clock), Unwrap(Self.max_clock)>>,
                        "Failed to set GPU min and max clocks")
         ELSE Skip
    /\ UNCHANGED <<envVars, procVars, gate, out>>

ApplyMemClocks ==
    /\ pc = "apply_mem_clocks"
    /\ IF IsSome(Self.min_mem_clock) /\ IsSome(Self.max_mem_clock)
         THEN VendorSet("mem_clocks",
                        <<Unwrap(Self.min_mem_clock), Unwrap(Self.max_mem_clock)>>,
                        "Failed to set GPU min and max memory clocks")
         ELSE Skip
    /\ UNCHANGED <<envVars, procVars, gate, out>>

(***************************************************************************)
(* RawThresholdBridge: the vendor library is loaded anew by every call.    *)
(***************************************************************************)
Candidates == <<"libnvidia-ml.so.1", "libnvidia-ml.so">>

\* a loader whose failure goes unnoticed
NvmlLib_new_unchecked(loadable) ==
    LET first == Call("NvmlLib::new", -1, <<1>>,
                      IF Candidates[1] \in loadable THEN 0 ELSE -1)
        second == Call("NvmlLib::new", -1, <<2>>,
                       IF Candidates[2] \in loadable THEN 0 ELSE -1)
    IN IF Candidates[1] \in loadable
         THEN [calls |-> <<first>>, ok |-> TRUE]
         ELSE [calls |-> <<first, second>>, ok |-> TRUE]

\* NvmlLib::new(c1).or_else(|_| NvmlLib::new(c2)); `loadable` is the set of
\* candidate names the dynamic loader can load at this moment
NvmlLib_new(loadable) ==
    LET first == Call("NvmlLib::new", -1, <<1>>,
                      IF Candidates[1] \in loadable THEN 0 ELSE -1)
        second == Call("NvmlLib::new", -1, <<2>>,
                       IF Candidates[2] \in loadable THEN 0 ELSE -1)
    IN IF Candidates[1] \in loadable
         THEN [calls |-> <<first>>, ok |-> TRUE]
         ELSE [calls |-> <<first, second>>, ok |-> Candidates[2] \in loadable]

\* what the vendor may answer to the raw set call
RawSetReturns(d, temp) ==
    IF temp >= acoustic_range(d).min /\ temp <= acoustic_range(d).max
      THEN {NVML_SUCCESS, 3}
      ELSE {2}

\* the threshold the device reports as current
acoustic_current(d) ==
    IF hw[d][RawSet] = <<>> THEN acoustic_range(d).max ELSE hw[d][RawSet][1]

set_acoustic_temperature(d, temp_celsius, loadable, result) ==
    LET temp == AsI32(temp_celsius)
        nvml_lib == NvmlLib_new(loadable)
    IN IF ~nvml_lib.ok
         THEN [calls |-> nvml_lib.calls, ok |-> FALSE, code |-> -1,
               err |-> Msg(<<"Failed to load NVML library: ", "{:?}">>, <<>>)]
         ELSE [calls |-> Append(nvml_lib.calls, Call(RawSet, d, <<temp>>, result)),
               ok |-> result = NVML_SUCCESS, code |-> result,
               err |-> IF result = NVML_SUCCESS
                         THEN NoMsg
                         ELSE Msg(<<"NVML error code: ", "{}">>, <<U32(result)>>)]

\* arg <<0>> is ACOUSTIC_MIN, <<1>> ACOUSTIC_CURR, <<2>> ACOUSTIC_MAX
get_acoustic_temperature(d, loadable, result) ==
    LET nvml_lib == NvmlLib_new(loadable)
    IN IF ~nvml_lib.ok
         THEN [calls |-> nvml_lib.calls, temp |-> None]
         ELSE [calls |-> Append(nvml_lib.calls, Call(RawGet, d, <<1>>, result)),
               temp |-> IF result = NVML_SUCCESS
                          THEN Some(acoustic_current(d)) ELSE None]

get_acoustic_temperature_range(d, loadable, min_result, max_result) ==
    LET nvml_lib == NvmlLib_new(loadable)
    IN IF ~nvml_lib.ok
         THEN [calls |-> nvml_lib.calls, min |-> None, max |-> None]
         ELSE [calls |-> nvml_lib.calls \o
                         <<Call(RawGet, d, <<0>>, min_result),
                           Call(RawGet, d, <<2>>, max_result)>>,
               min |-> IF min_result = NVML_SUCCESS
                         THEN Some(acoustic_range(d).min) ELSE None,
               max |-> IF max_result = NVML_SUCCESS
                         THEN Some(acoustic_range(d).max) ELSE None]

\* a message that never carries the range
target_temp_error_without_range(target_temp, e, min, max) ==
    Msg(<<"Failed to set target temperature: ", "{}", " C - ">> \o e.text,
        <<target_temp>> \o e.nums)

\* the message of the target temperature panic
target_temp_error(target_temp, e, min, max) ==
    LET error_msg == Msg(<<"Failed to set target temperature: ", "{}", " C - ">>
                         \o e.text, <<target_temp>> \o e.nums)
    IN IF IsSome(min) /\ IsSome(max)
         THEN push_str(error_msg, <<" Valid range: ", "{}", " C - ", "{}", " C">>,
                       <<U32(Unwrap(min)), U32(Unwrap(max))>>)
         ELSE error_msg

ApplyTargetTemp ==
    /\ pc = "apply_target_temp"
    /\ IF IsSome(Self.target_temp)
         THEN LET target_temp == Unwrap(Self.target_temp)
              IN \E loadable \in SUBSET Range(Candidates),
                    result \in RawSetReturns(device, AsI32(target_temp)) :
                   LET r == set_acoustic_temperature(device, target_temp,
                                                     loadable, result)
                       w == Call(WriteOp.target_temp, device,
                                 <<target_temp.hi, target_temp.lo>>, r.code)
                   IN IF r.ok
                        THEN /\ calls' = (calls \o <<w>>) \o r.calls
                             /\ hw' = [hw EXCEPT ![device][RawSet] =
                                                     <<AsI32(target_temp)>>]
                             /\ pc' = AfterStep(pc)
                             /\ panic_msg' = panic_msg
                        ELSE \E loadable2 \in SUBSET Range(Candidates),
                                min_result, max_result \in {NVML_SUCCESS, 3} :
                               LET g == get_acoustic_temperature_range(
                                            device, loadable2, min_result,
                                            max_result)
                               IN /\ calls' = ((calls \o <<w>>) \o r.calls) \o g.calls
                                  /\ hw' = hw
                                  /\ pc' = OnFailure(AfterStep(pc))
                                  /\ panic_msg' = target_temp_error(
                                         target_temp, r.err, g.min, g.max)
         ELSE Skip
    /\ UNCHANGED <<envVars, procVars, gate, out>>

SuccessLine == Line("stdout", <<"Successfully set GPU parameters.">>, <<>>)

\* main, Set arm: after sets.apply
Set_Print ==
    /\ pc = "applied"
    /\ cli.command = "Set"
    /\ out' = Append(out, SuccessLine)
    /\ pc' = "done"
    /\ UNCHANGED <<envVars, procVars, gate, calls, hw, panic_msg>>

(***************************************************************************)
(* main, the arm without a subcommand: the config-driven run.              *)
(***************************************************************************)
Cfg_Read ==
    /\ pc = "cfg_read"
    /\ IF file.readable
         THEN pc' = "cfg_escalate" /\ panic_msg' = panic_msg
         ELSE Panic(Msg(<<"Configuration file not found and no valid arguments were provided. Run nvidia_oc --help for more information.">>, <<>>))
    /\ UNCHANGED <<envVars, procVars, gate, calls, hw, out>>

Cfg_Escalate ==
    /\ pc = "cfg_escalate"
    /\ escalate_permissions("cfg_parse")
    /\ UNCHANGED <<calls, hw, out>>

\* a parser that keeps the entries it could read of a malformed document
Cfg_FromStr_lenient ==
    /\ pc = "cfg_parse"
    /\ config' = file.sets /\ pc' = "cfg_init" /\ panic_msg' = panic_msg
    /\ UNCHANGED <<envVars, cli, it, nvml, device, gate, calls, hw, out>>

\* serde_json::from_str(&config_file).expect(..): every field of Sets is an
\* Option, so any subset of the keys deserializes
Cfg_FromStr ==
    /\ pc = "cfg_parse"
    /\ IF file.wellformed
         THEN config' = file.sets /\ pc' = "cfg_init" /\ panic_msg' = panic_msg
         ELSE config' = config
              /\ Panic(Msg(<<"Invalid configuration file", ": ", "{:?}">>, <<>>))
    /\ UNCHANGED <<envVars, cli, it, nvml, device, gate, calls, hw, out>>

Cfg_NvmlInit == pc = "cfg_init" /\ NvmlInit("cfg_loop")

\* for (index, sets) in config.sets { device_by_index(index); .. }
Cfg_Loop ==
    /\ pc = "cfg_loop"
    /\ IF it < Len(config)
         THEN /\ it' = it + 1
              /\ device_by_index(config[it + 1].index, ApplyOrder[1])
              /\ out' = out
         ELSE /\ out' = Append(out, SuccessLine)
              /\ pc' = "done"
              /\ UNCHANGED <<it, device, calls, panic_msg>>
    /\ UNCHANGED <<envVars, cli, config, nvml, gate, hw>>

\* a loop body that confirms each entry as soon as it is applied
Cfg_Applied_prints ==
    /\ pc = "applied"
    /\ cli.command = "None"
    /\ pc' = "cfg_loop"
    /\ out' = Append(out, SuccessLine)
    /\ UNCHANGED <<envVars, procVars, gate, calls, hw, panic_msg>>

\* the end of one loop body
Cfg_Applied ==
    /\ pc = "applied"
    /\ cli.command = "None"
    /\ pc' = "cfg_loop"
    /\ UNCHANGED <<envVars, procVars, gate, calls, hw, out, panic_msg>>

(***************************************************************************)
(* main, Get arm: six independent queries.                                 *)
(***************************************************************************)
Get_NvmlInit == pc = "get_init" /\ NvmlInit("get_device")

Get_DeviceByIndex ==
    /\ pc = "get_device"
    /\ device_by_index(cli.index, "get_freq_offset")
    /\ UNCHANGED <<envVars, cli, config, it, nvml, gate, hw, out>>

\* the value a structured getter reads back
Reading(op, factory) ==
    IF hw[device][op] = <<>> THEN factory ELSE hw[device][op][1]

\* a query whose failure ends the report: .expect(..) in place of the match
Query_abort_on_failure(op, okline, errtext, next) ==
    /\ \E code \in {NVML_SUCCESS, 3} :
         /\ calls' = Append(calls, Call(op, device, <<>>, code))
         /\ IF code = NVML_SUCCESS
              THEN out' = Append(out, okline) /\ pc' = next
                   /\ panic_msg' = panic_msg
              ELSE out' = out /\ Panic(Msg(<<errtext, ErrName(code)>>, <<>>))
    /\ UNCHANGED <<envVars, procVars, gate, hw>>

Query(op, okline, errtext, next) ==
    /\ \E code \in {NVML_SUCCESS, 3} :
         /\ calls' = Append(calls, Call(op, device, <<>>, code))
         /\ out' = Append(out, IF code = NVML_SUCCESS
                                 THEN okline
                                 ELSE Line("stderr", <<errtext, ErrName(code)>>, <<>>))
    /\ pc' = next
    /\ UNCHANGED <<envVars, procVars, gate, hw, panic_msg>>

Get_FreqOffset ==
    /\ pc = "get_freq_offset"
    /\ Query("gpc_clock_vf_offset",
             Line("stdout", <<"GPU core clock offset: ", "{}", " MHz">>,
                  <<Reading(WriteOp.freq_offset, 0)>>),
             "Failed to get GPU core clock offset: ", "get_mem_offset")

Get_MemOffset ==
    /\ pc = "get_mem_offset"
    /\ Query("mem_clock_vf_offset",
             Line("stdout", <<"GPU memory clock offset: ", "{}", " MHz">>,
                  <<Reading(WriteOp.mem_offset, 0)>>),
             "Failed to get GPU memory clock offset: ", "get_power_limit")

Get_PowerLimit ==
    /\ pc = "get_power_limit"
    /\ Query("enforced_power_limit",
             Line("stdout", <<"GPU power limit: ", "{}", " W">>,
                  <<Reading(WriteOp.power_limit,
                            power_management_limit_constraints(device).max_limit)
                    \div 1000>>),
             "Failed to get GPU power limit: ", "get_power_constraints")

Get_PowerConstraints ==
    /\ pc = "get_power_constraints"
    /\ Query("power_management_limit_constraints",
             Line("stdout", <<"GPU power limit range: ", "{}", "-", "{}", " W">>,
                  <<power_management_limit_constraints(device).min_limit \div 1000,
                    power_management_limit_constraints(device).max_limit \div 1000>>),
             "Failed to get GPU power limit constraints: ", "get_target_temp")

Get_TargetTemp ==
    /\ pc = "get_target_temp"
    /\ \E loadable \in SUBSET Range(Candidates), result \in {NVML_SUCCESS, 3} :
         LET g == get_acoustic_temperature(device, loadable, result)
         IN /\ calls' = calls \o g.calls
            /\ out' = Append(out,
                  IF IsSome(g.temp)
                    THEN Line("stdout", <<"Target temperature (acoustic): ", "{}",
                                          " C">>, <<Unwrap(g.temp)>>)
                    ELSE Line("stderr", <<"Failed to get target temperature (not supported or not set)">>, <<>>))
    /\ pc' = "get_target_temp_range"
    /\ UNCHANGED <<envVars, procVars, gate, hw, panic_msg>>

Get_TargetTempRange ==
    /\ pc = "get_target_temp_range"
    /\ \E loadable \in SUBSET Range(Candidates),
          min_result, max_result \in {NVML_SUCCESS, 3} :
         LET g == get_acoustic_temperature_range(device, loadable, min_result,
                                                 max_result)
         IN /\ calls' = calls \o g.calls
            /\ out' = Append(out,
                  IF IsSome(g.min) /\ IsSome(g.max)
                    THEN Line("stdout", <<"Target temperature range: ", "{}",
                                          " C - ", "{}", " C">>,
                              <<Unwrap(g.min), Unwrap(g.max)>>)
                    ELSE Line("stderr", <<"Failed to get target temperature range (not supported)">>, <<>>))
    /\ pc' = "done"
    /\ UNCHANGED <<envVars, procVars, gate, hw, panic_msg>>

Next ==
    \/ Parse
    \/ Completion
    \/ Set_Escalate
    \/ Set_EscalateIfNeeded
    \/ Set_NvmlInit
    \/ Set_DeviceByIndex
    \/ ApplyFreqOffset
    \/ ApplyMemOffset
    \/ ApplyPowerLimit
    \/ ApplyClocks
    \/ ApplyMemClocks
    \/ ApplyTargetTemp
    \/ Set_Print
    \/ Cfg_Read
    \/ Cfg_Escalate
    \/ Cfg_FromStr
    \/ Cfg_NvmlInit
    \/ Cfg_Loop
    \/ Cfg_Applied
    \/ Get_NvmlInit
    \/ Get_DeviceByIndex
    \/ Get_FreqOffset
    \/ Get_MemOffset
    \/ Get_PowerLimit
    \/ Get_PowerConstraints
    \/ Get_TargetTemp
    \/ Get_TargetTempRange

Spec == Init /\ [][Next]_vars

(***************************************************************************)
(* Vocabulary of the properties.                                           *)
(***************************************************************************)
CallIdx == 1..Len(calls)

\* the run is one of the two that change devices
Mutating == args.command \in {"Set", "None"}

\* the application (the n-th resolved device of the run) call i belongs to
App(i) == Cardinality({j \in 1..i : calls[j].op = "device_by_index"})

NumApps == App(Len(calls))

\* the settings bundle of application n
SetsOf(n) == IF cli.command = "Set" THEN cli.sets ELSE config[n].sets

\* the six fields of the specification in its fixed order, by write call
FixedOrder ==
    <<"set_gpc_clock_vf_offset", "set_mem_clock_vf_offset",
      "set_power_management_limit", "set_gpu_locked_clocks",
      "set_mem_locked_clocks", "set_acoustic_temperature">>

Rank(op) == CHOOSE k \in 1..Len(FixedOrder) : FixedOrder[k] = op

\* a call that apply issues to write a field
IsWrite(c) == c.op \in Range(FixedOrder)

\* field k (in the fixed order) of bundle s is present
Present(s, k) ==
    CASE k = 1 -> IsSome(s.freq_offset)
      [] k = 2 -> IsSome(s.mem_offset)
      [] k = 3 -> IsSome(s.power_limit)
      [] k = 4 -> IsSome(s.min_clock) /\ IsSome(s.max_clock)
      [] k = 5 -> IsSome(s.min_mem_clock) /\ IsSome(s.max_mem_clock)
      [] OTHER -> IsSome(s.target_temp)

\* the positions of main() that follow the privilege gate on a mutating path
PastGate ==
    {"set_escalate2", "set_init", "set_device", "cfg_parse", "cfg_init",
     "cfg_loop", "applied"} \cup Range(ApplyOrder)

(***************************************************************************)
(* C1: on the Set path and on the config-driven path every call to the     *)
(* vendor library (opening the session, resolving a device, every write)   *)
(* is issued by an elevated process, the gate has returned "already root"  *)
(* in the process that is past it, and a process whose gate attempted a    *)
(* re-execution, was refused or found no tool is never past the gate.      *)
(***************************************************************************)
C1_WritesOnlyWhenElevated ==
    Mutating =>
      /\ \A i \in CallIdx : calls[i].elev
      /\ pc \in PastGate => elevated /\ gate.result = "root"
      /\ ~elevated => calls = <<>>

C1_Witness ==
    /\ args.command = "None"
    /\ reexecs = 1
    /\ \E i \in CallIdx : IsWrite(calls[i]) /\ calls[i].code = NVML_SUCCESS

(***************************************************************************)
(* C2: within one application the write calls appear in the fixed order    *)
(* core offset, memory offset, power limit, core clocks, memory clocks,    *)
(* target temperature; a call is issued only for a present field; and when *)
(* apply stands at a step, every present field of an earlier step has been *)
(* written by a successful call of this application.                       *)
(***************************************************************************)
C2_FixedOrder ==
    /\ \A i, j \in CallIdx :
         (i < j /\ IsWrite(calls[i]) /\ IsWrite(calls[j]) /\ App(i) = App(j))
           => Rank(calls[i].op) < Rank(calls[j].op)
    /\ \A i \in CallIdx :
         IsWrite(calls[i]) => Present(SetsOf(App(i)), Rank(calls[i].op))
    /\ \A k \in 1..Len(FixedOrder) :
         (pc = "applied" \/ (\E m \in (k+1)..Len(ApplyOrder) : pc = ApplyOrder[m]))
           => (Present(SetsOf(NumApps), k)
                 => \E i \in CallIdx : /\ App(i) = NumApps
                                       /\ calls[i].op = FixedOrder[k]
                                       /\ calls[i].code = NVML_SUCCESS)

C2_Witness ==
    /\ pc = "done"
    /\ cli.command = "Set"
    /\ Cardinality({i \in CallIdx : IsWrite(calls[i])}) = Len(FixedOrder)
    /\ \E i \in CallIdx : calls[i].op = "set_acoustic_temperature"
                          /\ calls[i].arg = <<0, 65>>

\* the argument of the last successful call of op on device d, <<>> if none
LastOk(d, op) ==
    LET S == {i \in CallIdx : /\ calls[i].op = op
                              /\ calls[i].dev = d
                              /\ calls[i].code = NVML_SUCCESS}
    IN IF S = {} THEN <<>> ELSE calls[CHOOSE i \in S : \A j \in S : j <= i].arg

\* every device holds exactly what the successful calls of the run wrote
NothingUndone ==
    \A d \in Devices :
      \A op \in {FixedOrder[1], FixedOrder[2], FixedOrder[3], FixedOrder[4],
                 FixedOrder[5], RawSet} : hw[d][op] = LastOk(d, op)

FailedWrites == {i \in CallIdx : IsWrite(calls[i]) /\ calls[i].code # NVML_SUCCESS}

(***************************************************************************)
(* C3: a write call that fails is the last write call of the run (no step  *)
(* after it issues one), the process has terminated with a panic, and      *)
(* every device still holds what the successful earlier calls wrote.       *)
(***************************************************************************)
C3_FailFastNoRollback ==
    /\ \A i \in FailedWrites :
         /\ \A j \in CallIdx : j > i => ~IsWrite(calls[j])
         /\ pc = "panicked"
    /\ NothingUndone

C3_Witness ==
    /\ pc = "panicked"
    /\ \E i, j \in CallIdx :
         /\ i < j
         /\ App(i) = App(j)
         /\ IsWrite(calls[i]) /\ calls[i].code = NVML_SUCCESS
         /\ j \in FailedWrites
         /\ Rank(calls[j].op) < Len(FixedOrder)
         /\ Present(SetsOf(App(j)), Len(FixedOrder))
         /\ hw[calls[i].dev][calls[i].op] = calls[i].arg

\* the call that changes the device for field k, and the value field k of
\* bundle s asks for
HwOpAt(k) == IF k = Len(FixedOrder) THEN RawSet ELSE FixedOrder[k]

ArgOf(s, k) ==
    CASE k = 1 -> <<Unwrap(s.freq_offset)>>
      [] k = 2 -> <<Unwrap(s.mem_offset)>>
      [] k = 3 -> <<Unwrap(s.power_limit)>>
      [] k = 4 -> <<Unwrap(s.min_clock), Unwrap(s.max_clock)>>
      [] k = 5 -> <<Unwrap(s.min_mem_clock), Unwrap(s.max_mem_clock)>>
      [] OTHER -> <<AsI32(Unwrap(s.target_temp))>>

(***************************************************************************)
(* C4: in a config-driven run a failed write ends the run: the process has *)
(* panicked in the application of the entry it had taken last, no call     *)
(* names the device of any entry after it and such a device is as it was,  *)
(* and the device of every entry before it holds each present field of its *)
(* bundle.                                                                 *)
(***************************************************************************)
C4_BatchFailFast ==
    (args.command = "None" /\ FailedWrites # {}) =>
      /\ pc = "panicked"
      /\ NumApps = it
      /\ \A i \in FailedWrites : App(i) = it
      /\ \A m \in (it + 1)..Len(config) :
           /\ \A i \in CallIdx : calls[i].dev # config[m].index
           /\ config[m].index \in Devices =>
                \A op \in DOMAIN hw[config[m].index] :
                  hw[config[m].index][op] = <<>>
      /\ \A m \in 1..(it - 1) :
           \A k \in 1..Len(FixedOrder) :
             Present(config[m].sets, k) =>
               hw[config[m].index][HwOpAt(k)] = ArgOf(config[m].sets, k)

C4_Witness ==
    /\ args.command = "None"
    /\ pc = "panicked"
    /\ Len(config) = 3
    /\ it = 2
    /\ FailedWrites # {}
    /\ Present(config[1].sets, 1)
    /\ hw[config[1].index][FixedOrder[1]] = <<-150>>
    /\ Present(config[3].sets, 1)

\* the options of the command line that make up field k
FieldsOf(k) ==
    CASE k = 1 -> {"freq_offset"}
      [] k = 2 -> {"mem_offset"}
      [] k = 3 -> {"power_limit"}
      [] k = 4 -> {"min_clock", "max_clock"}
      [] k = 5 -> {"min_mem_clock", "max_mem_clock"}
      [] OTHER -> {"target_temp"}

AppWrites(n) == {i \in CallIdx : IsWrite(calls[i]) /\ App(i) = n}

\* the device of application n was resolved
Resolved(n) ==
    \E i \in CallIdx : /\ calls[i].op = "device_by_index"
                       /\ App(i) = n
                       /\ calls[i].code = NVML_SUCCESS

\* application n has ended, by returning or by a panic
Finished(n) ==
    Resolved(n) /\ (n < NumApps \/ pc \in {"applied", "cfg_loop", "done", "panicked"})

(***************************************************************************)
(* C5: applying a bundle with exactly one field populated (a clock range   *)
(* being one field) issues exactly one write call, the one of that field:  *)
(* never another one, never a second one, and one once the application has *)
(* ended; the raw vendor set call is issued at most once as well.          *)
(***************************************************************************)
C5_SingleFieldSingleCall ==
    \A n \in 1..(IF Mutating THEN NumApps ELSE 0) :
      \A k \in 1..Len(FixedOrder) :
        (Resolved(n) /\ Populated(SetsOf(n)) = FieldsOf(k)) =>
          /\ \A i \in AppWrites(n) : calls[i].op = FixedOrder[k]
          /\ Cardinality(AppWrites(n)) <= 1
          /\ Finished(n) => Cardinality(AppWrites(n)) = 1
          /\ Cardinality({i \in CallIdx : calls[i].op = RawSet /\ App(i) = n}) <= 1

C5_Witness ==
    /\ pc = "done"
    /\ args.command = "Set"
    /\ Populated(cli.sets) = FieldsOf(5)
    /\ \E i \in CallIdx : calls[i].op = FixedOrder[5]
    /\ Cardinality({i \in CallIdx : IsWrite(calls[i])}) = 1

\* the settings bundles of the run: the one of the command line, or those
\* of the entries of a config file that parses
RunSets ==
    CASE args.command = "Set" -> {args.sets}
      [] args.command = "None" /\ file.readable /\ file.wellformed ->
           {file.sets[m].sets : m \in 1..Len(file.sets)}
      [] OTHER -> {}

HalfRange(s) ==
    \/ IsSome(s.min_clock) # IsSome(s.max_clock)
    \/ IsSome(s.min_mem_clock) # IsSome(s.max_mem_clock)

\* a call on a device: resolving it, writing to it, querying it
DeviceCalls == {i \in CallIdx : calls[i].dev >= 0}

(***************************************************************************)
(* C6: a run one of whose bundles has only one end of a clock range is     *)
(* rejected: it issues no call on any device and does not end in success.  *)
(***************************************************************************)
C6_HalfRangeRejected ==
    (\E s \in RunSets : HalfRange(s)) => DeviceCalls = {} /\ pc # "done"

(***************************************************************************)
(* C7: a run one of whose bundles has no field at all is rejected: it      *)
(* issues no call on any device and does not end in success.               *)
(***************************************************************************)
C7_EmptyRejected ==
    (\E s \in RunSets : Populated(s) = {}) => DeviceCalls = {} /\ pc # "done"

(***************************************************************************)
(* C8: a gate invoked by a process that is not root probes sudo, doas,     *)
(* pkexec in this order and stops at the first one installed, which is the *)
(* one mechanism it attempts: sudo whenever sudo is installed, doas only   *)
(* without sudo, pkexec only without both; with none installed nothing is  *)
(* attempted and the process panics with a message naming the three tools. *)
(***************************************************************************)
C8_ProbeOrder ==
    gate.result \notin {"none", "root"} =>
      /\ "sudo" \in gate.installed => gate.attempted = <<"sudo">>
      /\ ("sudo" \notin gate.installed /\ "doas" \in gate.installed)
           => gate.attempted = <<"doas">>
      /\ (gate.installed = {"pkexec"}) => gate.attempted = <<"pkexec">>
      /\ gate.probed = SubSeq(<<"sudo", "doas", "pkexec">>, 1, Len(gate.probed))
      /\ gate.attempted # <<>> =>
           gate.attempted = <<gate.probed[Len(gate.probed)]>>
      /\ gate.installed = {} =>
           /\ gate.attempted = <<>>
           /\ gate.result = "no_tool"
           /\ Len(gate.probed) = 3
           /\ pc = "panicked"
           /\ {"sudo", "doas", "pkexec"} \subseteq Range(panic_msg.text)

C8_Witness ==
    /\ gate.installed = {"sudo", "doas", "pkexec"}
    /\ gate.attempted = <<"sudo">>
    /\ gate.result = "reexec"
    /\ elevated

\* the power limit calls the vendor rejected as an invalid argument
PowerRejections ==
    {i \in CallIdx : calls[i].op = FixedOrder[3] /\ calls[i].code = 2}

\* message m holds the number w with w = mw / 1000, rounded down
HasWatts(m, mw) ==
    \E j \in 1..Len(m.nums) :
      /\ m.nums[j].hi = 0
      /\ m.nums[j].lo * 1000 <= mw
      /\ mw < (m.nums[j].lo + 1) * 1000

\* message m holds both bounds of device d in milliwatts and in watts
HasPowerRange(m, d) ==
    LET c == power_management_limit_constraints(d)
    IN /\ U32(c.min_limit) \in Range(m.nums)
       /\ U32(c.max_limit) \in Range(m.nums)
       /\ HasWatts(m, c.min_limit)
       /\ HasWatts(m, c.max_limit)

(***************************************************************************)
(* C9 as stated: after every power-limit rejection the panic message holds *)
(* the supported range of the device in milliwatts and in watts.           *)
(***************************************************************************)
C9_RangeAlwaysInMessage ==
    \A i \in PowerRejections :
      pc = "panicked" /\ HasPowerRange(panic_msg, calls[i].dev)

(***************************************************************************)
(* C9 amended: a power-limit rejection is followed by the query of the     *)
(* supported range and a panic; the message holds the range in milliwatts  *)
(* and in watts (milliwatts / 1000, rounded down) when that query          *)
(* succeeded, and only the requested limit when it failed.                 *)
(***************************************************************************)
C9_RangeWhenQueried ==
    \A i \in PowerRejections :
      /\ pc = "panicked"
      /\ i + 1 = Len(calls)
      /\ calls[i + 1].op = "power_management_limit_constraints"
      /\ calls[i + 1].dev = calls[i].dev
      /\ U32(calls[i].arg[1]) \in Range(panic_msg.nums)
      /\ calls[i + 1].code = NVML_SUCCESS => HasPowerRange(panic_msg, calls[i].dev)
      /\ calls[i + 1].code # NVML_SUCCESS => Len(panic_msg.nums) = 1

C9_Witness ==
    /\ PowerRejections # {}
    /\ device = 1
    /\ calls[Len(calls)].code = NVML_SUCCESS
    /\ U32(400000) \in Range(panic_msg.nums)
    /\ U32(350999) \in Range(panic_msg.nums)
    /\ U32(350) \in Range(panic_msg.nums)

IsLoad(c) == c.op = "NvmlLib::new"

IsRaw(c) == c.op \in {RawSet, RawGet}

\* neither candidate library could be loaded by the bridge call whose
\* second probe is call i
NoLibraryAt(i) ==
    /\ i > 1
    /\ IsLoad(calls[i]) /\ calls[i].arg = <<2>> /\ calls[i].code # 0
    /\ IsLoad(calls[i - 1]) /\ calls[i - 1].arg = <<1>> /\ calls[i - 1].code # 0

OkRawGet(kind) ==
    \E i \in CallIdx : /\ calls[i].op = RawGet
                       /\ calls[i].arg = <<kind>>
                       /\ calls[i].code = NVML_SUCCESS

(***************************************************************************)
(* C10: a bridge call that could load neither library issues no raw call;  *)
(* a threshold query then yields "unavailable" (the Get run prints the     *)
(* failure line of the attribute and goes on, it never panics), while      *)
(* set_acoustic_temperature fails with the library message and the         *)
(* process panics without any raw set call.                                *)
(***************************************************************************)
C10_LibraryUnavailable ==
    /\ \A i \in CallIdx :
         NoLibraryAt(i) => (i = Len(calls) \/ ~IsRaw(calls[i + 1]))
    /\ \A i \in CallIdx :
         IsRaw(calls[i]) =>
           \E j \in 1..(i - 1) :
             /\ IsLoad(calls[j]) /\ calls[j].code = 0
             /\ \A k \in (j + 1)..(i - 1) : IsRaw(calls[k])
    /\ args.command = "Get" =>
         /\ device >= 0 => pc # "panicked"
         /\ (Len(out) >= 5 /\ out[5].stream = "stdout") => OkRawGet(1)
         /\ (Len(out) >= 6 /\ out[6].stream = "stdout") => OkRawGet(0) /\ OkRawGet(2)
         /\ pc = "done" => Len(out) = 6
    /\ \A i \in CallIdx :
         (calls[i].op = FixedOrder[6] /\ i + 2 <= Len(calls) /\ NoLibraryAt(i + 2)) =>
           /\ calls[i].code # NVML_SUCCESS
           /\ pc = "panicked"
           /\ "Failed to load NVML library: " \in Range(panic_msg.text)
           /\ \A j \in CallIdx : j > i => calls[j].op # RawSet
           /\ hw[calls[i].dev][RawSet] = <<>>

C10_Witness ==
    /\ args.command = "Get"
    /\ pc = "done"
    /\ Cardinality({i \in CallIdx : NoLibraryAt(i)}) = 2
    /\ out[5].stream = "stderr"
    /\ out[6].stream = "stderr"

\* the four queries of the Get arm that go through the structured binding
GetOps ==
    <<"gpc_clock_vf_offset", "mem_clock_vf_offset", "enforced_power_limit",
      "power_management_limit_constraints">>

\* the first piece of the value line and of the failure line of each of the
\* six attributes of the report
ValueText ==
    <<"GPU core clock offset: ", "GPU memory clock offset: ",
      "GPU power limit: ", "GPU power limit range: ",
      "Target temperature (acoustic): ", "Target temperature range: ">>

FailureText ==
    <<"Failed to get GPU core clock offset: ",
      "Failed to get GPU memory clock offset: ",
      "Failed to get GPU power limit: ",
      "Failed to get GPU power limit constraints: ",
      "Failed to get target temperature (not supported or not set)",
      "Failed to get target temperature range (not supported)">>

\* the positions of the Get arm once the device is resolved, in order
GetPositions ==
    <<"get_freq_offset", "get_mem_offset", "get_power_limit",
      "get_power_constraints", "get_target_temp", "get_target_temp_range",
      "done">>

\* the query of attribute k was made and succeeded
Succeeded(k) ==
    CASE k <= 4 -> \E i \in CallIdx : /\ calls[i].op = GetOps[k]
                                      /\ calls[i].code = NVML_SUCCESS
      [] k = 5  -> OkRawGet(1)
      [] OTHER  -> OkRawGet(0) /\ OkRawGet(2)

\* how often the query of attribute k was attempted
Attempts(k) ==
    IF k <= 4
      THEN Cardinality({i \in CallIdx : calls[i].op = GetOps[k]})
      ELSE IF Cardinality({i \in CallIdx : IsLoad(calls[i])
                                            /\ calls[i].arg = <<1>>}) >= k - 4
             THEN 1 ELSE 0

(***************************************************************************)
(* C11: a Get run that has resolved its device never panics and walks      *)
(* through the six queries in order whatever their results: every query    *)
(* passed was attempted exactly once and left exactly one line, the value  *)
(* line of its attribute on stdout if it succeeded and the failure line of *)
(* its attribute on stderr if it failed; the run ends with six lines.      *)
(***************************************************************************)
C11_AllSixQueried ==
    (args.command = "Get" /\ device >= 0) =>
      /\ pc \in Range(GetPositions)
      /\ pc = GetPositions[Len(out) + 1]
      /\ \A k \in 1..6 : Attempts(k) = (IF k <= Len(out) THEN 1 ELSE 0)
      /\ \A k \in 1..Len(out) :
           /\ Succeeded(k) => /\ out[k].stream = "stdout"
                              /\ out[k].text[1] = ValueText[k]
           /\ ~Succeeded(k) => /\ out[k].stream = "stderr"
                               /\ out[k].text[1] = FailureText[k]

C11_Witness ==
    /\ args.command = "Get"
    /\ pc = "done"
    /\ Len(out) = 6
    /\ Succeeded(1) /\ Succeeded(2) /\ ~Succeeded(3) /\ Succeeded(4)
    /\ out[3].text[1] = "Failed to get GPU power limit: "
    /\ out[5].stream = "stderr"
    /\ out[6].stream = "stdout"

\* the positions of the config arm up to the parse of the document
BeforeConfig == {"parse", "cfg_read", "cfg_escalate", "cfg_parse"}

(***************************************************************************)
(* C12: a config-driven run whose file is unreadable or malformed never    *)
(* gets past the parse of the document: no session is opened, no device is *)
(* resolved, no write call is issued and every device is as it was,        *)
(* whatever entries the file holds; nothing is printed; an unreadable file *)
(* ends the process with the panic of the read, a malformed one ends the   *)
(* elevated process with the panic of the parser.                          *)
(***************************************************************************)
C12_NoPartialApplication ==
    (args.command = "None" /\ ~(file.readable /\ file.wellformed)) =>
      /\ calls = <<>>
      /\ \A d \in Devices : \A op \in DOMAIN hw[d] : hw[d][op] = <<>>
      /\ config = <<>> /\ it = 0 /\ device = -1 /\ ~nvml
      /\ out = <<>>
      /\ pc \in BeforeConfig \cup {"panicked", "exited"}
      /\ ~file.readable =>
           /\ pc \in {"parse", "cfg_read", "panicked"}
           /\ pc = "panicked" =>
                panic_msg.text[1] = "Configuration file not found and no valid arguments were provided. Run nvidia_oc --help for more information."
      /\ (file.readable /\ elevated /\ pc \notin BeforeConfig) =>
           /\ pc = "panicked"
           /\ panic_msg.text[1] = "Invalid configuration file"

C12_Witness ==
    /\ args.command = "None"
    /\ file.readable /\ ~file.wellformed
    /\ Len(file.sets) = 2
    /\ file.sets[1].index \in Devices
    /\ IsSome(file.sets[1].sets.freq_offset)
    /\ reexecs = 1
    /\ pc = "panicked"
    /\ panic_msg.text[1] = "Invalid configuration file"

\* the positions of main() at or behind a privilege gate
GatePositions == {"set_escalate", "set_escalate2", "cfg_escalate", "exited"}

(***************************************************************************)
(* C13: on a Get run the privilege gate is never invoked (no tool is       *)
(* probed, none is attempted), the process is never replaced and keeps the *)
(* identity it started with, elevated or not, and no write call, wrapped   *)
(* or raw, is issued: every device stays as it was.                        *)
(***************************************************************************)
C13_GetNeverGated ==
    args.command = "Get" =>
      /\ gate.result = "none"
      /\ gate.probed = <<>> /\ gate.attempted = <<>>
      /\ reexecs = 0
      /\ pc \notin GatePositions
      /\ \A i \in CallIdx :
           /\ ~IsWrite(calls[i])
           /\ calls[i].op # RawSet
           /\ calls[i].elev = elevated
      /\ \A d \in Devices : \A op \in DOMAIN hw[d] : hw[d][op] = <<>>

C13_Witness ==
    /\ args.command = "Get"
    /\ ~elevated
    /\ pc = "done"
    /\ Len(out) = 6
    /\ out[1].stream = "stdout"
    /\ \E i \in CallIdx : calls[i].op = RawGet /\ ~calls[i].elev

\* the target temperature writes that failed
TempRejections ==
    {i \in CallIdx : calls[i].op = FixedOrder[6] /\ calls[i].code # NVML_SUCCESS}

\* the range query that follows rejection i obtained the bound `kind`
Obtained(i, kind) ==
    \E j \in CallIdx : /\ j > i
                       /\ calls[j].op = RawGet
                       /\ calls[j].dev = calls[i].dev
                       /\ calls[j].arg = <<kind>>
                       /\ calls[j].code = NVML_SUCCESS

\* the numbers of the message before any range: the requested temperature
\* and, when the vendor answered the raw set call, its return code
RejectionNums(i) ==
    << [hi |-> calls[i].arg[1], lo |-> calls[i].arg[2]] >>
    \o (IF \E j \in CallIdx : j > i /\ calls[j].op = RawSet
          THEN <<U32(calls[i].code)>> ELSE <<>>)

(***************************************************************************)
(* C14: a failed target temperature write ends the process with one panic  *)
(* whose message starts as the target temperature failure and holds the    *)
(* requested value; when the range query that follows obtained both bounds *)
(* the message ends with the minimum and the maximum of the device in      *)
(* Celsius, otherwise it holds no range at all; in both cases nothing else *)
(* is reported (no line is printed).                                       *)
(***************************************************************************)
C14_RangeIfObtainable ==
    \A i \in TempRejections :
      /\ pc = "panicked"
      /\ out = <<>>
      /\ panic_msg.text[1] = "Failed to set target temperature: "
      /\ IF Obtained(i, 0) /\ Obtained(i, 2)
           THEN /\ " Valid range: " \in Range(panic_msg.text)
                /\ panic_msg.nums =
                     RejectionNums(i) \o
                     <<U32(acoustic_range(calls[i].dev).min),
                       U32(acoustic_range(calls[i].dev).max)>>
           ELSE /\ " Valid range: " \notin Range(panic_msg.text)
                /\ panic_msg.nums = RejectionNums(i)

C14_Witness ==
    /\ pc = "panicked"
    /\ \E i \in TempRejections :
         /\ calls[i].dev = 1
         /\ calls[i].code = 3
         /\ Obtained(i, 0) /\ Obtained(i, 2)
    /\ panic_msg.nums = <<U32(65), U32(3), U32(61), U32(91)>>

\* a rejection whose range query obtained one bound only
C14_WitnessOneBound ==
    /\ pc = "panicked"
    /\ \E i \in TempRejections : Obtained(i, 0) /\ ~Obtained(i, 2)
    /\ Len(panic_msg.nums) = 2

\* the confirmation line is among the lines printed
Confirmed ==
    \E k \in 1..Len(out) : out[k].text = <<"Successfully set GPU parameters.">>

\* the number of settings bundles of the run that is past its inputs
NumSpecs == IF cli.command = "Set" THEN 1 ELSE Len(config)

\* a session, resolve or write call that failed
FailedCalls ==
    {i \in CallIdx : /\ calls[i].code # NVML_SUCCESS
                      /\ (IsWrite(calls[i])
                          \/ calls[i].op \in {"Nvml::init", "device_by_index"})}

(***************************************************************************)
(* C15: the confirmation line is printed at most once, as the last thing   *)
(* the process does, and only by a run that changes devices; when it is    *)
(* printed every bundle of the run had its device resolved and every       *)
(* present field of every bundle was written by a successful call of its   *)
(* application (the device holds the value), and no session, resolve or    *)
(* write call has failed; a run that ends normally has printed it; a       *)
(* failed resolve or write leaves the process panicked with nothing        *)
(* printed.                                                                *)
(***************************************************************************)
C15_ConfirmationOnlyOnSuccess ==
    /\ Confirmed =>
         /\ Mutating
         /\ pc = "done"
         /\ out = <<[stream |-> "stdout",
                     text |-> <<"Successfully set GPU parameters.">>,
                     nums |-> <<>>]>>
         /\ FailedCalls = {}
         /\ NumApps = NumSpecs
         /\ \A n \in 1..NumSpecs :
              /\ Resolved(n)
              /\ \A k \in 1..Len(FixedOrder) :
                   Present(SetsOf(n), k) =>
                     \E i \in CallIdx :
                       /\ App(i) = n
                       /\ calls[i].op = FixedOrder[k]
                       /\ calls[i].code = NVML_SUCCESS
                       /\ hw[calls[i].dev][HwOpAt(k)] = ArgOf(SetsOf(n), k)
    /\ (Mutating /\ pc = "done") => Confirmed
    /\ FailedCalls # {} => pc = "panicked" /\ out = <<>>

C15_Witness ==
    /\ args.command = "None"
    /\ Confirmed
    /\ Len(config) = 2
    /\ Present(config[1].sets, 1) /\ Present(config[2].sets, 1)
    /\ hw[config[1].index][FixedOrder[1]] = <<-150>>
    /\ hw[config[2].index][FixedOrder[1]] = <<-150>>

\* the confirmation of the Set path after all six fields
C15_WitnessSet ==
    /\ args.command = "Set"
    /\ Confirmed
    /\ Populated(cli.sets) = FieldNames

\* what a vendor call is a call of: the operation, the device and, for the
\* raw threshold query, the threshold asked for
Key(c) == <<c.op, c.dev, IF c.op = RawGet THEN c.arg ELSE <<>> >>

\* the calls that only fetch what an error message shows
IsDiagnostic(c) ==
    c.op \in {"power_management_limit_constraints", "NvmlLib::new", RawGet}

(***************************************************************************)
(* C16: in a run no vendor call is issued twice: no two calls of the run   *)
(* (loading the library aside, which every bridge call does anew) have the *)
(* same operation on the same device, so each write call is issued at most *)
(* once for each device and field, wrapped and raw; and after a write call *)
(* that failed the process has panicked and has issued nothing but the     *)
(* queries that fill its message.                                          *)
(***************************************************************************)
C16_NoRetry ==
    /\ \A i, j \in CallIdx :
         (i < j /\ ~IsLoad(calls[i])) => Key(calls[i]) # Key(calls[j])
    /\ \A i \in FailedWrites :
         /\ pc = "panicked"
         /\ \A j \in CallIdx : j > i =>
              \/ IsDiagnostic(calls[j])
              \/ /\ calls[j].op = RawSet
                 /\ calls[i].op = FixedOrder[6]
                 /\ calls[j].code = calls[i].code

C16_Witness ==
    /\ args.command = "None"
    /\ pc = "panicked"
    /\ \E i, j \in CallIdx :
         /\ i < j
         /\ calls[i].op = FixedOrder[1] /\ calls[i].code = NVML_SUCCESS
         /\ calls[j].op = FixedOrder[1] /\ calls[j].code = 3
         /\ calls[i].dev # calls[j].dev
         /\ j = Len(calls)

\* the escalation mechanisms in the order of preference of the specification
Preference == <<"sudo", "doas", "pkexec">>

PrefRank(t) == CHOOSE k \in 1..Len(Preference) : Preference[k] = t

(***************************************************************************)
(* C17: one invocation of the gate attempts at most one mechanism: none    *)
(* when the process is root or no tool is installed, otherwise exactly the *)
(* first installed one in the order of preference, and no tool after it is *)
(* even probed; when that attempt returns a failure the gate returns it    *)
(* (the process panics with it, still not elevated, never re-executed by   *)
(* this gate) although other mechanisms may be installed; the process is   *)
(* re-executed at most once in a run.                                      *)
(***************************************************************************)
C17_AtMostOneAttempt ==
    /\ Len(gate.attempted) <= 1
    /\ gate.result \in {"none", "root", "no_tool"} => gate.attempted = <<>>
    /\ gate.result \in {"reexec", "denied", "err"} =>
         /\ Len(gate.attempted) = 1
         /\ gate.attempted[1] \in gate.installed
         /\ \A k \in 1..(PrefRank(gate.attempted[1]) - 1) :
              Preference[k] \notin gate.installed
         /\ Len(gate.probed) = PrefRank(gate.attempted[1])
    /\ gate.result = "err" =>
         /\ pc = "panicked"
         /\ ~elevated
         /\ reexecs = 0
         /\ calls = <<>>
         /\ panic_msg.text = <<"Failed to escalate permissions", ": ",
                               gate.attempted[1]>>
    /\ reexecs <= 1

C17_Witness ==
    /\ gate.installed = {"doas", "pkexec"}
    /\ gate.attempted = <<"doas">>
    /\ gate.result = "err"
    /\ pc = "panicked"
    /\ args.command = "Set"

\* the signed 32-bit integer v is the number the u32 t stands for: t is
\* hi * 2^31 + lo with lo < 2^31, and v < 2^31, so they are equal exactly
\* when hi is 0 and v is lo
EqualsU32(v, t) == t.hi = 0 /\ v = t.lo

(***************************************************************************)
(* C18: whenever set_acoustic_temperature, called with the requested       *)
(* temperature t, issues the raw vendor set call, the signed integer it    *)
(* passes is not negative and is numerically equal to t.                   *)
(***************************************************************************)
C18_CastPreservesValue ==
    \A i, j \in CallIdx :
      (/\ i < j
       /\ calls[i].op = FixedOrder[6]
       /\ calls[j].op = RawSet
       /\ App(i) = App(j)) =>
        /\ calls[j].arg[1] >= 0
        /\ EqualsU32(calls[j].arg[1],
                     [hi |-> calls[i].arg[1], lo |-> calls[i].arg[2]])

\* the resolves that failed
FailedResolves ==
    {i \in CallIdx : calls[i].op = "device_by_index"
                      /\ calls[i].code # NVML_SUCCESS}

(***************************************************************************)
(* C19: in a config-driven run a resolve that fails is the last call of    *)
(* the run and the process has panicked at that entry with the resolve     *)
(* message and without the confirmation; no write call names the index of  *)
(* that entry; no call at all names the index of an entry iterated after   *)
(* it and such a device is as it was; the device of every entry iterated   *)
(* before it holds each present field of its bundle.                       *)
(***************************************************************************)
C19_UnresolvedIndexAborts ==
    (args.command = "None" /\ FailedResolves # {}) =>
      /\ pc = "panicked"
      /\ panic_msg.text[1] = "Failed to get GPU"
      /\ out = <<>>
      /\ \A i \in FailedResolves :
           /\ i = Len(calls)
           /\ App(i) = it
           /\ calls[i].dev = config[it].index
      /\ \A j \in CallIdx :
           (IsWrite(calls[j]) \/ calls[j].op = RawSet)
             => calls[j].dev # config[it].index
      /\ \A m \in (it + 1)..Len(config) :
           /\ \A j \in CallIdx : calls[j].dev # config[m].index
           /\ config[m].index \in Devices =>
                \A op \in DOMAIN hw[config[m].index] :
                  hw[config[m].index][op] = <<>>
      /\ \A m \in 1..(it - 1) :
           /\ \E j \in CallIdx : /\ calls[j].op = "device_by_index"
                                  /\ calls[j].dev = config[m].index
                                  /\ calls[j].code = NVML_SUCCESS
           /\ \A k \in 1..Len(FixedOrder) :
                Present(config[m].sets, k) =>
                  hw[config[m].index][HwOpAt(k)] = ArgOf(config[m].sets, k)

C19_Witness ==
    /\ args.command = "None"
    /\ pc = "panicked"
    /\ Len(config) = 3
    /\ it = 2
    /\ FailedResolves = {Len(calls)}
    /\ config[2].index \notin Devices
    /\ Present(config[1].sets, 1)
    /\ hw[config[1].index][FixedOrder[1]] = <<-150>>
    /\ config[3].index \in Devices
    /\ Present(config[3].sets, 1)
    /\ hw[config[3].index][FixedOrder[1]] = <<>>

====
